---- MODULE Spec2Model ----
(***************************************************************************)
(* Balance netting and settlement engine of splitYourBills.                *)
(*                                                                         *)
(* Money is an integer number of units; Cent units make 0.01 of the        *)
(* currency, so a value that is not a multiple of Cent is an amount that   *)
(* is not cent-precise.  Arithmetic is exact: the binary floating point    *)
(* noise of the JavaScript numbers is not modelled, except where the       *)
(* direction of a rounding tie depends on it (toFixed).                    *)
(***************************************************************************)
EXTENDS Integers, Sequences, FiniteSets, TLC

VARIABLES
    expenses,      \* the expense rows handed to calculateBalances
    computed,      \* TRUE once balances holds calculateBalances(expenses)
    balances,      \* the Map<user_id, {user_id, balance}> (insertion ordered)
    arg,           \* the balances as they were when simplifyDebts was called
    settlements,   \* the SettlementTransaction[] returned by simplifyDebts
    calls,         \* 1 once simplifyDebts has run on the map, 0 before
    userIds,       \* distributeEvenly: the participant ids
    totalAmount,   \* distributeEvenly: the amount to distribute
    splits,        \* distributeEvenly: the SplitInput[] returned
    distributed,   \* TRUE once distributeEvenly has returned
    store,         \* the rows of table settlement_transactions
    insertCalls,   \* number of inserts sent to settlement_transactions
    last,          \* the last API call on the settlement store and its outcome
    screen,        \* per client: the state of its GroupDetailScreen
    validation, \* the last validator call: its input and the errors returned
    retry,         \* retryWithBackoff: the call in progress and its outcome
    db,            \* the stored expense with its splits and payers
    editor,        \* updateExpense: the call in progress
    observed,      \* what the last calculateGroupDebts read and computed
    summary        \* the balance list returned by getGroupBalances

vars == <<expenses, computed, balances, arg, settlements, calls, userIds,
          totalAmount, splits, distributed, store, insertCalls, last, screen,
          validation,
          retry,
          db, editor, observed,
          summary>>

ledgerVars == <<expenses, computed>>

simplifyVars == <<balances, arg, settlements, calls>>

distVars == <<userIds, totalAmount, splits, distributed>>

storeVars == <<store, insertCalls, last>>

flowVars == <<screen>>

validVars == <<validation>>

retryVars == <<retry>>

editVars == <<db, editor, observed>>

summaryVars == <<summary>>

(***************************************************************************)
(* Bounds of the model.                                                    *)
(***************************************************************************)
Cent == 4

MaxUsers == 4

MaxBal == 4

MaxExpenses == 2

MaxParticipants == 4

MaxTotal == 10

MaxInserts == 2

MaxParties == 5

MaxDebt == 5

MaxSplits == 2

(***************************************************************************)
(* Generic helpers.                                                        *)
(***************************************************************************)
Abs(x) == IF x < 0 THEN -x ELSE x

Min(a, b) == IF a < b THEN a ELSE b

RECURSIVE SumSeq(_)
SumSeq(s) == IF s = <<>> THEN 0 ELSE Head(s) + SumSeq(Tail(s))

UserNames == <<"u1", "u2", "u3", "u4", "u5", "u6", "u7">>

(***************************************************************************)
(* Math.round(amount * 100) / 100: nearest cent, a half rounds towards     *)
(* plus infinity.                                                          *)
(***************************************************************************)
roundToTwoDecimals(amount) == ((2 * amount + Cent) \div (2 * Cent)) * Cent

(***************************************************************************)
(* Array.prototype.sort(byAbsoluteBalance): a stable sort of references    *)
(* (indices into the map) by descending |balance|.                         *)
(***************************************************************************)
\* variant: the smallest absolute balance first
byAbsoluteBalanceAscending(a, b) == Abs(a.balance) - Abs(b.balance)

byAbsoluteBalance(a, b) == Abs(b.balance) - Abs(a.balance)

RECURSIVE InsertStable(_, _, _)
InsertStable(x, sorted, bal) ==
    IF sorted = <<>> THEN <<x>>
    ELSE IF byAbsoluteBalance(bal[Head(sorted)], bal[x]) > 0
         THEN <<x>> \o sorted
         ELSE <<Head(sorted)>> \o InsertStable(x, Tail(sorted), bal)

RECURSIVE SortRefs(_, _)
SortRefs(refs, bal) ==
    IF refs = <<>> THEN <<>>
    ELSE InsertStable(refs[Len(refs)], SortRefs(SubSeq(refs, 1, Len(refs) - 1), bal), bal)

\* variant: the 0.01 threshold of the filter dropped
IsUnsettledNoThreshold(u) == Abs(u.balance) > 0

\* users = Array.from(balances.values()).filter(|balance| > 0.01)
IsUnsettled(u) == Abs(u.balance) > Cent

\* variant: every participant who does not owe counts as a creditor
IsCreditorNotOwing(u) == u.balance >= 0

IsCreditor(u) == IsUnsettled(u) /\ u.balance > 0

IsDebtor(u) == IsUnsettled(u) /\ u.balance < 0

Refs(bal) == [i \in 1..Len(bal) |-> i]

Creditors(bal) ==
    SortRefs(SelectSeq(Refs(bal), LAMBDA i : IsCreditor(bal[i])), bal)

\* variant: the debtors are left in the order of the map
DebtorsUnsorted(bal) == SelectSeq(Refs(bal), LAMBDA i : IsDebtor(bal[i]))

Debtors(bal) ==
    SortRefs(SelectSeq(Refs(bal), LAMBDA i : IsDebtor(bal[i])), bal)

(***************************************************************************)
(* One iteration of the greedy matching loop.  The entries of creditors    *)
(* and debtors are the objects of the map itself, so the loop writes the   *)
(* map.                                                                    *)
(***************************************************************************)
\* variant: the creditor's running balance is not decremented
MatchStepCreditorKept(st, creditors, debtors) ==
    LET c == creditors[st.creditorIdx]
        d == debtors[st.debtorIdx]
        settlementAmount == Min(Abs(st.bal[d].balance), st.bal[c].balance)
        bal1 == [st.bal EXCEPT ![d].balance = @ + settlementAmount]
    IN  [bal |-> bal1,
         out |-> Append(st.out, [payer_id |-> st.bal[d].user_id,
                                 payee_id |-> st.bal[c].user_id,
                                 amount   |-> roundToTwoDecimals(settlementAmount)]),
         debtorIdx   |-> IF Abs(bal1[d].balance) < Cent
                         THEN st.debtorIdx + 1 ELSE st.debtorIdx,
         creditorIdx |-> IF Abs(bal1[c].balance) < Cent
                         THEN st.creditorIdx + 1 ELSE st.creditorIdx]

\* variant: each iteration settles only half of the matched amount
MatchStepHalf(st, creditors, debtors) ==
    LET c == creditors[st.creditorIdx]
        d == debtors[st.debtorIdx]
        settlementAmount == Min(Abs(st.bal[d].balance), st.bal[c].balance) \div 2
        bal1 == [st.bal EXCEPT ![d].balance = @ + settlementAmount,
                               ![c].balance = @ - settlementAmount]
    IN  [bal |-> bal1,
         out |-> Append(st.out, [payer_id |-> st.bal[d].user_id,
                                 payee_id |-> st.bal[c].user_id,
                                 amount   |-> roundToTwoDecimals(settlementAmount)]),
         debtorIdx   |-> IF Abs(bal1[d].balance) < Cent
                         THEN st.debtorIdx + 1 ELSE st.debtorIdx,
         creditorIdx |-> IF Abs(bal1[c].balance) < Cent
                         THEN st.creditorIdx + 1 ELSE st.creditorIdx]

\* variant: a cent of the matched amount is left for a later iteration
MatchStepLeavingCent(st, creditors, debtors) ==
    LET c == creditors[st.creditorIdx]
        d == debtors[st.debtorIdx]
        least == Min(Abs(st.bal[d].balance), st.bal[c].balance)
        settlementAmount == IF least > Cent THEN least - Cent ELSE least
        bal1 == [st.bal EXCEPT ![d].balance = @ + settlementAmount,
                               ![c].balance = @ - settlementAmount]
    IN  [bal |-> bal1,
         out |-> Append(st.out, [payer_id |-> st.bal[d].user_id,
                                 payee_id |-> st.bal[c].user_id,
                                 amount   |-> roundToTwoDecimals(settlementAmount)]),
         debtorIdx   |-> IF Abs(bal1[d].balance) < Cent
                         THEN st.debtorIdx + 1 ELSE st.debtorIdx,
         creditorIdx |-> IF Abs(bal1[c].balance) < Cent
                         THEN st.creditorIdx + 1 ELSE st.creditorIdx]

MatchStep(st, creditors, debtors) ==
    LET c == creditors[st.creditorIdx]
        d == debtors[st.debtorIdx]
        debtAmount == Abs(st.bal[d].balance)
        creditAmount == st.bal[c].balance
        settlementAmount == Min(debtAmount, creditAmount)
        bal1 == [st.bal EXCEPT ![d].balance = @ + settlementAmount,
                               ![c].balance = @ - settlementAmount]
    IN  [bal |-> bal1,
         out |-> Append(st.out, [payer_id |-> st.bal[d].user_id,
                                 payee_id |-> st.bal[c].user_id,
                                 amount   |-> roundToTwoDecimals(settlementAmount)]),
         debtorIdx   |-> IF Abs(bal1[d].balance) < Cent
                         THEN st.debtorIdx + 1 ELSE st.debtorIdx,
         creditorIdx |-> IF Abs(bal1[c].balance) < Cent
                         THEN st.creditorIdx + 1 ELSE st.creditorIdx]

RECURSIVE MatchLoop(_, _, _)
MatchLoop(st, creditors, debtors) ==
    IF st.creditorIdx <= Len(creditors) /\ st.debtorIdx <= Len(debtors)
    THEN MatchLoop(MatchStep(st, creditors, debtors), creditors, debtors)
    ELSE st

\* simplifyDebts(balances): .out is the returned list, .bal the map afterwards
simplifyDebts(bal) ==
    MatchLoop([bal |-> bal, out |-> <<>>, creditorIdx |-> 1, debtorIdx |-> 1],
              Creditors(bal), Debtors(bal))

(***************************************************************************)
(* Specification of simplifyDebts over arbitrary balance maps.             *)
(***************************************************************************)
BalVals ==
    {c * Cent : c \in -MaxBal..MaxBal}
        \cup {1, Cent + 1, -(Cent + 1)}

\* the map holding balance f[i] for the i-th inserted user
BalanceMap(f) ==
    [i \in 1..Len(f) |-> [user_id |-> UserNames[i], balance |-> f[i]]]

IdleLedger == expenses = <<>> /\ computed = FALSE

IdleSimplify == balances = <<>> /\ arg = <<>> /\ settlements = <<>> /\ calls = 0

IdleDist ==
    userIds = <<>> /\ totalAmount = 0 /\ splits = <<>> /\ distributed = FALSE

IdleStore == store = <<>> /\ insertCalls = 0 /\ last = [op |-> "none"]

\* the clients that have the group open
Clients == {"c1", "c2"}

IdleFlow == screen = [c \in Clients |-> [pc |-> "closed"]]

IdleValid == validation = [op |-> "none"]

IdleRetry == retry = [pc |-> "none"]

IdleEdit ==
    db = <<>> /\ editor = [pc |-> "idle"] /\ observed = [op |-> "none"]

IdleSummary == summary = <<>>

InitSimplify ==
    /\ \E n \in 0..MaxUsers : \E f \in [1..n -> BalVals] : balances = BalanceMap(f)
    /\ arg = <<>>
    /\ settlements = <<>>
    /\ calls = 0
    /\ IdleLedger /\ IdleDist /\ IdleStore /\ IdleFlow /\ IdleValid
    /\ IdleRetry /\ IdleEdit /\ IdleSummary

SimplifyDebts ==
    /\ calls = 0
    /\ LET r == simplifyDebts(balances)
       IN  /\ arg' = balances
           /\ settlements' = r.out
           /\ balances' = r.bal
    /\ calls' = calls + 1
    /\ UNCHANGED <<ledgerVars, distVars, storeVars, flowVars, validVars,
                   retryVars, editVars, summaryVars>>

NextSimplify == SimplifyDebts

SpecSimplify == InitSimplify /\ [][NextSimplify]_vars

(***************************************************************************)
(* calculateBalances: fold of the expense rows into the balance map.       *)
(* An expense row is [amount, paid_by, payers, splits]; payers and splits  *)
(* are lists of [user_id, amount].  The amounts are the numbers parseFloat *)
(* reads from the decimal(10, 2) columns, i.e. whole cents.                *)
(***************************************************************************)
IndexOf(bal, userId) ==
    IF \E i \in 1..Len(bal) : bal[i].user_id = userId
    THEN CHOOSE i \in 1..Len(bal) : bal[i].user_id = userId
    ELSE 0

\* if (!balances.has(userId)) balances.set(userId, {user_id, balance: 0})
Ensure(bal, userId) ==
    IF IndexOf(bal, userId) = 0
    THEN Append(bal, [user_id |-> userId, balance |-> 0])
    ELSE bal

addBalance(bal, userId, amount) ==
    LET b == Ensure(bal, userId)
    IN  [b EXCEPT ![IndexOf(b, userId)].balance = @ + amount]

subtractBalance(bal, userId, amount) ==
    LET b == Ensure(bal, userId)
    IN  [b EXCEPT ![IndexOf(b, userId)].balance = @ - amount]

RECURSIVE AddPayers(_, _)
AddPayers(bal, payers) ==
    IF payers = <<>> THEN bal
    ELSE AddPayers(addBalance(bal, Head(payers).user_id, Head(payers).amount),
                   Tail(payers))

RECURSIVE SubtractSplits(_, _)
SubtractSplits(bal, sp) ==
    IF sp = <<>> THEN bal
    ELSE SubtractSplits(subtractBalance(bal, Head(sp).user_id, Head(sp).amount),
                        Tail(sp))

\* variant: the whole amount is credited to paid_by, the payers list ignored
FoldExpensePaidByOnly(bal, expense) ==
    SubtractSplits(addBalance(bal, expense.paid_by, expense.amount),
                   expense.splits)

\* the body of the for loop of calculateBalances for one expense
FoldExpense(bal, expense) ==
    LET paid == IF Len(expense.payers) = 0 /\ expense.paid_by # ""
                THEN addBalance(bal, expense.paid_by, expense.amount)
                ELSE AddPayers(bal, expense.payers)
    IN  SubtractSplits(paid, expense.splits)

RECURSIVE FoldExpenses(_, _)
FoldExpenses(bal, exps) ==
    IF exps = <<>> THEN bal
    ELSE FoldExpenses(FoldExpense(bal, Head(exps)), Tail(exps))

calculateBalances(exps) == FoldExpenses(<<>>, exps)

(***************************************************************************)
(* Specification of calculateBalances over bounded lists of expense rows.  *)
(***************************************************************************)
LedgerUsers == <<"u1", "u2">>

\* expenses.amount of the rows: one and two cents
ExpenseAmounts == {Cent, 2 * Cent}

\* the list holding, in user order, one cent for every user of the set
Shares(users) ==
    LET present == SelectSeq(LedgerUsers, LAMBDA u : u \in users)
    IN  [k \in 1..Len(present) |-> [user_id |-> present[k], amount |-> Cent]]

ShareSets == SUBSET {LedgerUsers[i] : i \in 1..Len(LedgerUsers)}

InitLedger ==
    /\ \E n \in 0..MaxExpenses :
         \E a \in [1..n -> ExpenseAmounts], by \in [1..n -> ShareSets \ {{}}],
            p \in [1..n -> ShareSets], s \in [1..n -> ShareSets] :
            expenses = [i \in 1..n |->
                          [amount |-> a[i], paid_by |-> Shares(by[i])[1].user_id,
                           payers |-> Shares(p[i]), splits |-> Shares(s[i])]]
    /\ computed = FALSE
    /\ IdleSimplify /\ IdleDist /\ IdleStore /\ IdleFlow /\ IdleValid
    /\ IdleRetry /\ IdleEdit /\ IdleSummary

CalculateBalances ==
    /\ ~computed
    /\ balances' = calculateBalances(expenses)
    /\ computed' = TRUE
    /\ UNCHANGED <<expenses, arg, settlements, calls, distVars,
                   storeVars, flowVars, validVars, retryVars, editVars, summaryVars>>

NextLedger == CalculateBalances

SpecLedger == InitLedger /\ [][NextLedger]_vars

(***************************************************************************)
(* Properties of calculateBalances.                                        *)
(***************************************************************************)
RECURSIVE SumAmounts(_)
SumAmounts(list) ==
    IF list = <<>> THEN 0 ELSE Head(list).amount + SumAmounts(Tail(list))

RECURSIVE BalanceSum(_)
BalanceSum(bal) ==
    IF bal = <<>> THEN 0 ELSE Head(bal).balance + BalanceSum(Tail(bal))

\* what the expense credits to its payers
Credited(e) == IF Len(e.payers) = 0 THEN e.amount ELSE SumAmounts(e.payers)

PayersMatchSplits(e) == Credited(e) = SumAmounts(e.splits)

AllPayersMatchSplits == \A i \in 1..Len(expenses) : PayersMatchSplits(expenses[i])

\* C1: when every expense credits its payers the same total as it charges
\* its splits, the balances returned by calculateBalances sum to zero.
C1_ZeroSum == (computed /\ AllPayersMatchSplits) => BalanceSum(balances) = 0

C1_Witness ==
    /\ computed
    /\ AllPayersMatchSplits
    /\ Len(expenses) = 2
    /\ \E i \in 1..2 : Len(expenses[i].payers) = 0
    /\ \E i \in 1..2 : Len(expenses[i].payers) >= 2
    /\ \E k \in 1..Len(balances) : balances[k].balance # 0

(***************************************************************************)
(* Properties of simplifyDebts.                                            *)
(***************************************************************************)
Max(a, b) == IF a > b THEN a ELSE b

Paid(userId, out) ==
    SumAmounts(SelectSeq(out, LAMBDA t : t.payer_id = userId))

Received(userId, out) ==
    SumAmounts(SelectSeq(out, LAMBDA t : t.payee_id = userId))

NonzeroCount(bal) == Cardinality({i \in 1..Len(bal) : bal[i].balance # 0})

UnsettledSum(bal) == BalanceSum(SelectSeq(bal, IsUnsettled))

UnsettledCentPrecise(bal) ==
    \A i \in 1..Len(bal) : IsUnsettled(bal[i]) => bal[i].balance % Cent = 0

\* C2: simplifyDebts leaves the balance map it was given as it found it.
C2_InputUnchanged == calls > 0 => balances = arg

\* C4 as stated: for any balance map, every payer of an emitted transaction
\* pays in total their original |debt| within 0.01, and every payee receives
\* in total their original credit within 0.01.
C4_Conservation ==
    calls > 0 =>
        \A i \in 1..Len(arg) :
            /\ (\E k \in 1..Len(settlements) : settlements[k].payer_id = arg[i].user_id)
                 => Abs(Paid(arg[i].user_id, settlements) - Abs(arg[i].balance)) <= Cent
            /\ (\E k \in 1..Len(settlements) : settlements[k].payee_id = arg[i].user_id)
                 => Abs(Received(arg[i].user_id, settlements) - arg[i].balance) <= Cent

\* C4 amended: when the balances beyond the 0.01 threshold are whole cents
\* and sum to zero, every participant who owes pays in total their original
\* |debt| within 0.01 and receives nothing, and every participant who is
\* owed receives in total their original credit within 0.01 and pays nothing.
C4_ConservationZeroSum ==
    (calls > 0 /\ UnsettledCentPrecise(arg) /\ UnsettledSum(arg) = 0) =>
        \A i \in 1..Len(arg) :
            LET paid == Paid(arg[i].user_id, settlements)
                received == Received(arg[i].user_id, settlements)
            IN  /\ arg[i].balance <= 0 =>
                     Abs(paid - Abs(arg[i].balance)) <= Cent /\ received = 0
                /\ arg[i].balance >= 0 =>
                     Abs(received - arg[i].balance) <= Cent /\ paid = 0

C4_Witness ==
    /\ calls = 1
    /\ UnsettledCentPrecise(arg)
    /\ UnsettledSum(arg) = 0
    /\ Len(settlements) = 3
    /\ \E i \in 1..Len(arg) :
         Cardinality({k \in 1..3 : settlements[k].payer_id = arg[i].user_id}) = 2

\* C5 as stated: at most (participants with a nonzero balance) - 1
\* transactions are emitted.
C5_Bound == calls > 0 => Len(settlements) <= NonzeroCount(arg) - 1

\* C5 amended: at most max(0, (participants with a nonzero balance) - 1)
\* transactions are emitted.
C5_BoundOrNone ==
    calls > 0 => Len(settlements) <= Max(0, NonzeroCount(arg) - 1)

C5_Witness ==
    /\ calls = 1
    /\ NonzeroCount(arg) = 4
    /\ Len(settlements) = 3

\* C6: every transaction emitted by simplifyDebts has an amount of whole
\* cents that is greater than zero.
C6_Positivity ==
    calls > 0 =>
        \A k \in 1..Len(settlements) :
            settlements[k].amount > 0 /\ settlements[k].amount % Cent = 0

C6_Witness ==
    /\ calls = 1
    /\ Len(settlements) >= 2
    /\ \E i \in 1..Len(arg) : IsUnsettled(arg[i]) /\ arg[i].balance % Cent # 0
    /\ \E k \in 1..Len(settlements) : settlements[k].amount = Cent

(***************************************************************************)
(* Specification of simplifyDebts over zero-sum maps of whole cents, with  *)
(* enough parties for the greedy matching to differ from the minimum.      *)
(***************************************************************************)
InitMinimal ==
    /\ \E n \in 0..MaxParties :
         \E f \in [1..n -> {c * Cent : c \in -MaxDebt..MaxDebt}] :
            /\ SumSeq(f) = 0
            /\ balances = BalanceMap(f)
    /\ arg = <<>>
    /\ settlements = <<>>
    /\ calls = 0
    /\ IdleLedger /\ IdleDist /\ IdleStore /\ IdleFlow /\ IdleValid
    /\ IdleRetry /\ IdleEdit /\ IdleSummary

SpecMinimal == InitMinimal /\ [][NextSimplify]_vars

\* the payments a list may use: whole cents up to the total that is owed
PaymentAmounts(bal) ==
    {c * Cent : c \in 1..(SumSeq([i \in 1..Len(bal) |-> Max(bal[i].balance, 0)]) \div Cent)}

\* some list of at most k payments (payer p pays a to payee q) brings every
\* balance of b to zero
RECURSIVE CanSettle(_, _, _)
CanSettle(b, k, amounts) ==
    IF k < 0 THEN FALSE
    ELSE IF \A i \in DOMAIN b : b[i] = 0 THEN TRUE
    ELSE IF k = 0 \/ Cardinality({i \in DOMAIN b : b[i] # 0}) > 2 * k THEN FALSE
    ELSE \E p \in DOMAIN b, q \in DOMAIN b, a \in amounts :
            /\ p # q
            /\ CanSettle([b EXCEPT ![p] = @ + a, ![q] = @ - a], k - 1, amounts)

FewerPaymentsSettle(bal, out) ==
    CanSettle([i \in 1..Len(bal) |-> bal[i].balance], Len(out) - 1,
              PaymentAmounts(bal))

toFixed2(num, den, up) ==
    LET mag == Abs(num)
        q == mag \div (den * Cent)
        rest == mag - q * den * Cent
        cents == IF 2 * rest > den * Cent \/ (2 * rest = den * Cent /\ up)
                 THEN q + 1 ELSE q
    IN  IF num < 0 THEN -(cents * Cent) ELSE cents * Cent

\* variant: the last participant gets the rounded share like everybody else
distributeEvenlyAllRounded(ids, total, up) ==
    [index \in 1..Len(ids) |->
        [user_id |-> ids[index], amount |-> toFixed2(total, Len(ids), up[1])]]

distributeEvenly(ids, total, up) ==
    IF Len(ids) = 0 THEN <<>>
    ELSE LET roundedPerPerson == toFixed2(total, Len(ids), up[1])
             othersTotal == roundedPerPerson * (Len(ids) - 1)
             lastAmount == total - othersTotal
         IN  [index \in 1..Len(ids) |->
                IF index = Len(ids)
                THEN [user_id |-> ids[index], amount |-> toFixed2(lastAmount, 1, up[2])]
                ELSE [user_id |-> ids[index], amount |-> roundedPerPerson]]

InitDist ==
    /\ \E n \in 0..MaxParticipants : userIds = [i \in 1..n |-> UserNames[i]]
    /\ totalAmount \in (-MaxTotal * Cent)..(MaxTotal * Cent)
    /\ splits = <<>>
    /\ distributed = FALSE
    /\ IdleLedger /\ IdleSimplify /\ IdleStore /\ IdleFlow /\ IdleValid
    /\ IdleRetry /\ IdleEdit /\ IdleSummary

DistributeEvenly ==
    /\ ~distributed
    /\ \E up \in [1..2 -> BOOLEAN] :
          splits' = distributeEvenly(userIds, totalAmount, up)
    /\ distributed' = TRUE
    /\ UNCHANGED <<userIds, totalAmount, ledgerVars, simplifyVars,
                   storeVars, flowVars, validVars, retryVars, editVars, summaryVars>>

NextDist == DistributeEvenly

SpecDist == InitDist /\ [][NextDist]_vars

\* amount is total / n rounded to a nearest cent
IsRoundedShare(amount, total, n) ==
    amount % Cent = 0 /\ 2 * Abs(amount * n - total) <= Cent * n

\* C8: for a non-empty participant list and a total of whole cents, the
\* amounts of distributeEvenly sum exactly to the total, everybody but the
\* last gets the per-person share rounded to cents, and the last gets the
\* total minus the sum of the others.
C8_ExactDistribution ==
    (distributed /\ Len(userIds) >= 1 /\ totalAmount % Cent = 0) =>
        LET n == Len(userIds)
        IN  /\ Len(splits) = n
            /\ \A i \in 1..n : splits[i].user_id = userIds[i]
            /\ SumAmounts(splits) = totalAmount
            /\ \A i \in 1..(n - 1) :
                  /\ IsRoundedShare(splits[i].amount, totalAmount, n)
                  /\ splits[i].amount = splits[1].amount
            /\ splits[n].amount = totalAmount - SumAmounts(SubSeq(splits, 1, n - 1))

C8_Witness ==
    /\ distributed
    /\ Len(userIds) = 3
    /\ totalAmount = 10 * Cent
    /\ splits[1].amount = 3 * Cent
    /\ splits[2].amount = 3 * Cent
    /\ splits[3].amount = 4 * Cent

(***************************************************************************)
(* The settlement store: table settlement_transactions and the two         *)
(* recordSettlement functions that insert into it (api/settlements and     *)
(* api/debtSimplification), with the queries of api/settlements.           *)
(***************************************************************************)
Groups == {"g1", "g2"}

Members == {"u1", "u2"}

\* payee ids a caller may pass: a member or the empty string
PayeeInputs == Members \cup {""}

AmountInputs == {-Cent, 0, 1, Cent - 1, Cent, Cent + 1}

\* the constraints of the table: the uuid references, different_users and
\* positive_amount
RowAccepted(row) ==
    /\ row.group_id \in Groups
    /\ row.payer_id \in Members
    /\ row.payee_id \in Members
    /\ row.payer_id # row.payee_id
    /\ row.amount > 0
    /\ row.status \in {"pending", "completed"}

\* variant: the row is left in the status the table gives by default
NewRowPending(rows, groupId, payerId, payeeId, amount) ==
    [id |-> Len(rows) + 1, group_id |-> groupId, payer_id |-> payerId,
     payee_id |-> payeeId, amount |-> amount, status |-> "pending",
     created_at |-> Len(rows) + 1, completed_at |-> 0]

\* the row both recordSettlement functions send; id and created_at are the
\* defaults of the table; completed_at is new Date() of the client, taken to
\* agree with now() of the database; completed_at = 0 stands for null
NewRow(rows, groupId, payerId, payeeId, amount) ==
    [id |-> Len(rows) + 1, group_id |-> groupId, payer_id |-> payerId,
     payee_id |-> payeeId, amount |-> amount, status |-> "completed",
     created_at |-> Len(rows) + 1, completed_at |-> Len(rows) + 1]

\* variant: the row replaces the rows recorded for the same group and pair
UpsertRow(rows, row) ==
    Append(SelectSeq(rows, LAMBDA r : ~(/\ r.group_id = row.group_id
                                        /\ r.payer_id = row.payer_id
                                        /\ r.payee_id = row.payee_id)), row)

\* variant: a row equal to a recorded one in group, pair and amount is not
\* stored a second time
InsertRowOnce(rows, row) ==
    IF \E i \in 1..Len(rows) : /\ rows[i].group_id = row.group_id
                                /\ rows[i].payer_id = row.payer_id
                                /\ rows[i].payee_id = row.payee_id
                                /\ rows[i].amount = row.amount
    THEN rows
    ELSE Append(rows, row)

\* supabase.from('settlement_transactions').insert([row])
InsertRow(rows, row) == Append(rows, row)

InitStore ==
    /\ store = <<>>
    /\ insertCalls = 0
    /\ last = [op |-> "none"]
    /\ IdleLedger /\ IdleSimplify /\ IdleDist /\ IdleFlow /\ IdleValid
    /\ IdleRetry /\ IdleEdit /\ IdleSummary

\* the outcome of supabase.from('settlement_transactions').insert([row]):
\* the row is stored, or the insert fails (a constraint rejects the row, or
\* the database cannot be reached) and the caller throws
InsertOutcome(call, row) ==
    /\ insertCalls < MaxInserts
    /\ insertCalls' = insertCalls + 1
    /\ \/ /\ RowAccepted(row)
          /\ store' = InsertRow(store, row)
          /\ last' = call @@ [threw |-> "", inserts |-> 1]
       \/ /\ store' = store
          /\ last' = call @@ [threw |-> "Failed to record settlement", inserts |-> 1]

Rejected(call, message) ==
    /\ last' = call @@ [threw |-> message, inserts |-> 0]
    /\ UNCHANGED <<store, insertCalls>>

\* variant: the requested amount is stored as it was given
recordSettlementUnrounded(settlement) ==
    LET call == [op |-> "settlements.recordSettlement", input |-> settlement]
    IN  IF \/ settlement.group_id = ""
           \/ settlement.payer_id = ""
           \/ settlement.payee_id = ""
        THEN Rejected(call, "Missing required fields")
        ELSE IF settlement.amount <= 0
        THEN Rejected(call, "Amount must be greater than 0")
        ELSE IF settlement.payer_id = settlement.payee_id
        THEN Rejected(call, "Payer and payee cannot be the same")
        ELSE InsertOutcome(call, NewRow(store, settlement.group_id,
                                        settlement.payer_id, settlement.payee_id,
                                        settlement.amount))

\* api/settlements recordSettlement(settlement): the step of the store
recordSettlement(settlement) ==
    LET roundedAmount == roundToTwoDecimals(settlement.amount)
        call == [op |-> "settlements.recordSettlement", input |-> settlement]
    IN  IF \/ settlement.group_id = ""
           \/ settlement.payer_id = ""
           \/ settlement.payee_id = ""
        THEN Rejected(call, "Missing required fields")
        ELSE IF settlement.amount <= 0
        THEN Rejected(call, "Amount must be greater than 0")
        ELSE IF settlement.payer_id = settlement.payee_id
        THEN Rejected(call, "Payer and payee cannot be the same")
        ELSE InsertOutcome(call, NewRow(store, settlement.group_id,
                                        settlement.payer_id, settlement.payee_id,
                                        roundedAmount))

\* a call of api/settlements recordSettlement with any input
RecordSettlement ==
    /\ \E g \in Groups, p \in Members, q \in PayeeInputs,
          a \in AmountInputs :
           recordSettlement([group_id |-> g, payer_id |-> p,
                             payee_id |-> q, amount |-> a])
    /\ UNCHANGED <<ledgerVars, simplifyVars, distVars, flowVars, validVars,
                   retryVars, editVars, summaryVars>>

\* api/debtSimplification recordSettlement(groupId, payerId, payeeId, amount)
DebtSimplificationRecordSettlement ==
    /\ \E g \in Groups, p \in Members, q \in PayeeInputs,
          a \in AmountInputs :
           LET input == [group_id |-> g, payer_id |-> p, payee_id |-> q, amount |-> a]
               call == [op |-> "debtSimplification.recordSettlement", input |-> input]
           IN  InsertOutcome(call, NewRow(store, g, p, q, roundToTwoDecimals(a)))
    /\ UNCHANGED <<ledgerVars, simplifyVars, distVars, flowVars, validVars,
                   retryVars, editVars, summaryVars>>

RECURSIVE Reverse(_)
Reverse(s) == IF s = <<>> THEN <<>> ELSE Append(Reverse(Tail(s)), Head(s))

\* select * where group_id = groupId order by created_at desc
getAllSettlements(rows, groupId) ==
    Reverse(SelectSeq(rows, LAMBDA r : r.group_id = groupId))

GetAllSettlements ==
    /\ \E g \in Groups :
          last' = [op |-> "getAllSettlements", input |-> g,
                   result |-> getAllSettlements(store, g)]
    /\ UNCHANGED <<store, insertCalls, ledgerVars, simplifyVars,
                   distVars, flowVars, validVars, retryVars, editVars, summaryVars>>

\* order by completed_at desc; rows of one completed_at keep the order of
\* the table
RECURSIVE InsertByCompletedAt(_, _)
InsertByCompletedAt(row, sorted) ==
    IF sorted = <<>> THEN <<row>>
    ELSE IF Head(sorted).completed_at >= row.completed_at
         THEN <<Head(sorted)>> \o InsertByCompletedAt(row, Tail(sorted))
         ELSE <<row>> \o sorted

RECURSIVE OrderByCompletedAtDesc(_)
OrderByCompletedAtDesc(rows) ==
    IF rows = <<>> THEN <<>>
    ELSE InsertByCompletedAt(rows[Len(rows)],
                             OrderByCompletedAtDesc(SubSeq(rows, 1, Len(rows) - 1)))

\* select * where group_id = groupId and status = 'completed'
\* order by completed_at desc
getCompletedSettlements(rows, groupId) ==
    OrderByCompletedAtDesc(
        SelectSeq(rows, LAMBDA r : r.group_id = groupId /\ r.status = "completed"))

GetCompletedSettlements ==
    /\ \E g \in Groups :
          last' = [op |-> "getCompletedSettlements", input |-> g,
                   result |-> getCompletedSettlements(store, g)]
    /\ UNCHANGED <<store, insertCalls, ledgerVars, simplifyVars,
                   distVars, flowVars, validVars, retryVars, editVars, summaryVars>>

\* getSettlement(groupId, payerId, payeeId, status?): status = "" stands for
\* no status given.  query.single() gives the row when exactly one row
\* matches and error PGRST116 otherwise, which the function turns into null:
\* the result is the list of the one row, or the empty list for null
getSettlement(rows, groupId, payerId, payeeId, status) ==
    LET matching ==
            SelectSeq(rows, LAMBDA r : /\ r.group_id = groupId
                                       /\ r.payer_id = payerId
                                       /\ r.payee_id = payeeId
                                       /\ (status # "" => r.status = status))
    IN  IF Len(matching) = 1 THEN matching ELSE <<>>

getPendingSettlement(rows, groupId, payerId, payeeId) ==
    getSettlement(rows, groupId, payerId, payeeId, "pending")

GetPendingSettlement ==
    /\ \E g \in Groups, p \in Members, q \in Members :
          last' = [op |-> "getPendingSettlement",
                   input |-> [group_id |-> g, payer_id |-> p, payee_id |-> q],
                   result |-> getPendingSettlement(store, g, p, q)]
    /\ UNCHANGED <<store, insertCalls, ledgerVars, simplifyVars,
                   distVars, flowVars, validVars, retryVars, editVars, summaryVars>>

\* the optional amount of settlementExists: left out, or a number
OptionalAmounts == {<<>>} \cup {<<a>> : a \in AmountInputs}

\* settlementExists(groupId, payerId, payeeId, amount?): if (amount) adds
\* the filter on the rounded amount, so an amount of 0 adds none
settlementExists(rows, groupId, payerId, payeeId, amount) ==
    LET filtered == amount # <<>> /\ amount[1] # 0
    IN  \E i \in 1..Len(rows) :
           /\ rows[i].group_id = groupId
           /\ rows[i].payer_id = payerId
           /\ rows[i].payee_id = payeeId
           /\ rows[i].status = "completed"
           /\ filtered => rows[i].amount = roundToTwoDecimals(amount[1])

SettlementExists ==
    /\ \E g \in Groups, p \in Members, q \in Members, a \in OptionalAmounts :
          last' = [op |-> "settlementExists",
                   input |-> [group_id |-> g, payer_id |-> p, payee_id |-> q,
                              amount |-> a],
                   result |-> settlementExists(store, g, p, q, a)]
    /\ UNCHANGED <<store, insertCalls, ledgerVars, simplifyVars,
                   distVars, flowVars, validVars, retryVars, editVars, summaryVars>>

NextStore ==
    \/ RecordSettlement
    \/ DebtSimplificationRecordSettlement
    \/ GetAllSettlements
    \/ GetCompletedSettlements
    \/ GetPendingSettlement
    \/ SettlementExists

SpecStore == InitStore /\ [][NextStore]_vars

IsRecordCall(call) ==
    call.op \in {"settlements.recordSettlement",
                 "debtSimplification.recordSettlement"}

\* C9: a recordSettlement call whose amount is <= 0 or whose payer equals its
\* payee raises an error without sending any insert to the store, and the
\* store is as it was.
C9_RejectedBeforeInsert ==
    [][(IsRecordCall(last') /\ (last'.input.amount <= 0
                                \/ last'.input.payer_id = last'.input.payee_id))
        => (/\ last'.threw # ""
            /\ last'.inserts = 0
            /\ insertCalls' = insertCalls
            /\ store' = store)]_vars

SameRecord(r, t) ==
    /\ r.id = t.id
    /\ r.group_id = t.group_id
    /\ r.payer_id = t.payer_id
    /\ r.payee_id = t.payee_id
    /\ r.amount = t.amount
    /\ r.status = t.status

\* C10: every step keeps every recorded settlement in place with the same
\* group, payer, payee, amount and status.
C10_AppendOnly ==
    [][\A i \in 1..Len(store) :
          i <= Len(store') /\ SameRecord(store[i], store'[i])]_vars

C10_Witness ==
    /\ Len(store) = 2
    /\ store[1].group_id = store[2].group_id
    /\ store[1].payer_id = store[2].payer_id
    /\ store[1].payee_id = store[2].payee_id
    /\ last.op = "getAllSettlements"

Records(list) == {list[i] : i \in 1..Len(list)}

AllCompleted ==
    /\ \A i \in 1..Len(store) :
          store[i].status = "completed" /\ store[i].completed_at # 0
    /\ \A g \in Groups :
          Records(getCompletedSettlements(store, g))
              = Records(getAllSettlements(store, g))
    /\ \A g \in Groups, p \in Members, q \in Members :
          getPendingSettlement(store, g, p, q) = <<>>

\* C11: every settlement record is in status 'completed' with completed_at
\* set and no step changes the status of a record; so in every reachable
\* state getCompletedSettlements returns the records getAllSettlements
\* returns and getPendingSettlement finds nothing.
C11_CreatedCompleted ==
    /\ []AllCompleted
    /\ [][\A i \in 1..Len(store) :
             i <= Len(store') => store'[i].status = store[i].status]_vars

C11_Witness ==
    /\ Len(store) = 2
    /\ last.op = "getCompletedSettlements"
    /\ Len(last.result) = 2
    /\ last.result = getAllSettlements(store, last.input)

(***************************************************************************)
(* Recording a suggested settlement from the group screen: every client   *)
(* loads the settlements calculateGroupDebts suggests (GroupDetailScreen   *)
(* loadData), records one of them (SettlementModal handleRecordPayment)    *)
(* and loads again (handleSettlementSuccess).  The expenses of the group   *)
(* stay as they are.                                                       *)
(***************************************************************************)
GroupId == "g1"

\* select ... from expenses where group_id = groupId and is_deleted = false,
\* then calculateBalances and simplifyDebts
calculateGroupDebts(exps) ==
    IF Len(exps) = 0 THEN <<>>
    ELSE simplifyDebts(calculateBalances(exps)).out

InitFlow ==
    /\ \E n \in 0..MaxExpenses :
         \E a \in [1..n -> ExpenseAmounts], by \in [1..n -> Members],
            s \in [1..n -> ShareSets \ {{}}] :
            expenses = [i \in 1..n |->
                          [amount |-> a[i], paid_by |-> by[i],
                           payers |-> <<>>, splits |-> Shares(s[i])]]
    /\ computed = FALSE
    /\ screen = [c \in Clients |-> [pc |-> "closed"]]
    /\ IdleSimplify /\ IdleDist /\ IdleStore /\ IdleValid /\ IdleRetry
    /\ IdleEdit /\ IdleSummary

\* loadData of the group screen, first when the screen opens and again after
\* a settlement was recorded: the settlements are those of
\* calculateGroupDebts, or none when it throws
LoadData(c) ==
    /\ screen[c].pc \in {"closed", "recorded"}
    /\ \E calculated \in {calculateGroupDebts(expenses), <<>>} :
          screen' = [screen EXCEPT ![c] =
                        [pc |-> IF @.pc = "closed" THEN "loaded" ELSE "refreshed",
                         settlements |-> calculated,
                         paid |-> IF @.pc = "closed" THEN <<>> ELSE @.paid,
                         rowsAtLoad |-> Len(store),
                         error |-> ""]]
    /\ UNCHANGED <<ledgerVars, simplifyVars, distVars, storeVars, validVars,
                   retryVars, editVars, summaryVars>>

\* the amounts a user may enter for settlement t: nothing, one cent, the
\* amount suggested, more than the amount suggested
PaymentInputs(t) == {0, Cent, t.amount, t.amount + 2 * Cent}

\* handleRecordPayment of SettlementModal for the settlement the user tapped
HandleRecordPayment(c) ==
    /\ screen[c].pc = "loaded"
    /\ \E k \in 1..Len(screen[c].settlements) :
         \E parsedAmount \in PaymentInputs(screen[c].settlements[k]) :
            LET settlement == screen[c].settlements[k]
            IN  IF parsedAmount <= 0
                THEN /\ screen' = [screen EXCEPT ![c].error = "Please enter a valid amount"]
                     /\ UNCHANGED storeVars
                ELSE IF parsedAmount > settlement.amount + Cent
                THEN /\ screen' = [screen EXCEPT ![c].error = "Amount cannot exceed"]
                     /\ UNCHANGED storeVars
                ELSE /\ recordSettlement([group_id |-> GroupId,
                                          payer_id |-> settlement.payer_id,
                                          payee_id |-> settlement.payee_id,
                                          amount |-> parsedAmount])
                     /\ screen' =
                          IF last'.threw = ""
                          THEN [screen EXCEPT
                                   ![c].pc = "recorded",
                                   ![c].paid = <<[payer_id |-> settlement.payer_id,
                                                  payee_id |-> settlement.payee_id,
                                                  amount |-> parsedAmount]>>,
                                   ![c].error = ""]
                          ELSE [screen EXCEPT ![c].error = last'.threw]
    /\ UNCHANGED <<ledgerVars, simplifyVars, distVars, validVars, retryVars,
                   editVars, summaryVars>>

NextFlow ==
    \/ \E c \in Clients : LoadData(c)
    \/ \E c \in Clients : HandleRecordPayment(c)

SpecFlow == InitFlow /\ [][NextFlow]_vars

HasRecorded(c) == screen[c].pc \in {"recorded", "refreshed"}

\* the completed records of the group for the payment a client recorded
RecordsOf(payment) ==
    {i \in 1..Len(store) : /\ store[i].group_id = GroupId
                            /\ store[i].payer_id = payment.payer_id
                            /\ store[i].payee_id = payment.payee_id
                            /\ store[i].amount = roundToTwoDecimals(payment.amount)
                            /\ store[i].status = "completed"}

\* C12: recordSettlement enforces no uniqueness: every client whose
\* recordSettlement succeeded has a completed record of its own, so the
\* store holds as many records of one (group, payer, payee, amount) as
\* there are clients that recorded it.
C12_NoUniqueness ==
    \A c \in Clients :
        HasRecorded(c) =>
            Cardinality(RecordsOf(screen[c].paid[1]))
                = Cardinality({d \in Clients :
                                  HasRecorded(d) /\ screen[d].paid = screen[c].paid})

\* both clients computed the debts before either recorded, both recorded
\* the settlement suggested, and two completed records of it exist
C12_Witness ==
    /\ \A c \in Clients :
          /\ screen[c].pc = "recorded"
          /\ screen[c].rowsAtLoad = 0
          /\ screen[c].settlements = calculateGroupDebts(expenses)
          /\ screen[c].paid = screen[c].settlements
    /\ screen["c1"].paid = screen["c2"].paid
    /\ Cardinality(RecordsOf(screen["c1"].paid[1])) = 2

\* C13: once a client has recorded the full amount of a settlement that
\* calculateGroupDebts suggested and has loaded the settlements again, the
\* settlements calculateGroupDebts returns no longer hold that payment.
C13_RecordedNotSuggestedAgain ==
    \A c \in Clients :
        (/\ screen[c].pc = "refreshed"
         /\ screen[c].settlements = calculateGroupDebts(expenses))
            => \A k \in 1..Len(screen[c].settlements) :
                  screen[c].paid[1] # screen[c].settlements[k]

(***************************************************************************)
(* The validators (validators/expenseValidator.ts, splitValidator.ts,      *)
(* settlementValidator.ts).                                                *)
(*                                                                         *)
(* A JavaScript value passed as an amount is a record: kind "number" with  *)
(* the amount limits * 10,000,000 + value units, or NaN, or undefined, or  *)
(* a string.  A description is its length and its length once trimmed; a   *)
(* date is absent, unparsable, not after the end of today, or after it.    *)
(* A validator returns [threw, errors]: threw when the call raised a       *)
(* TypeError, else the errors in the order they were pushed, each with its *)
(* field, the index of the split it is about (0 when none) and message.    *)
(***************************************************************************)
MaxDescription == 200

Number(limits, value) == [kind |-> "number", limits |-> limits, value |-> value]

NaN == [kind |-> "NaN", limits |-> 0, value |-> 0]

Undefined == [kind |-> "undefined", limits |-> 0, value |-> 0]

AString == [kind |-> "string", limits |-> 0, value |-> 0]

\* typeof x === 'number' && !isNaN(x)
IsValidNumber(x) == x.kind = "number"

\* x <= 0
NotPositive(x) == x.limits < 0 \/ (x.limits = 0 /\ x.value <= 0)

\* x > 10000000
ExceedsLimit(x) == x.limits > 1 \/ (x.limits = 1 /\ x.value > 0)

\* a > b, which is false when either is NaN or undefined
GreaterThan(a, b) ==
    /\ a.kind = "number" /\ b.kind = "number"
    /\ a.limits > b.limits \/ (a.limits = b.limits /\ a.value > b.value)

\* s.trim()
Trim(s) == IF s = " " THEN "" ELSE s

\* !s || !s.trim()
IsBlank(s) == s = "" \/ Trim(s) = ""

Error(field, index, message) ==
    [field |-> field, index |-> index, message |-> message]

Returned(errors) == [threw |-> FALSE, errors |-> errors]

Threw == [threw |-> TRUE, errors |-> <<>>]

\* splits.reduce((sum, s) => sum + s.amount, 0): a string as soon as one
\* amount is a string, else NaN as soon as one amount is NaN or undefined
RECURSIVE SumOfSplits(_)
SumOfSplits(list) ==
    IF list = <<>> THEN Number(0, 0)
    ELSE LET rest == SumOfSplits(SubSeq(list, 1, Len(list) - 1))
             amount == list[Len(list)].amount
         IN  IF rest.kind = "string" \/ amount.kind = "string" THEN AString
             ELSE IF rest.kind # "number" \/ amount.kind # "number" THEN NaN
             ELSE Number(rest.limits + amount.limits, rest.value + amount.value)

\* x.toFixed is not a function
ToFixedThrows(x) == x.kind \in {"undefined", "string"}

\* parseFloat(x.toFixed(2)) of a number or NaN
ParseFixed(x, up) ==
    IF x.kind = "number" THEN Number(x.limits, toFixed2(x.value, 1, up)) ELSE NaN

\* Math.abs(roundedSum - roundedAmount) > 0.01.  A difference of exactly
\* one cent between two binary floating point numbers comes out just below
\* or just above 0.01 (10.01 - 10 is below it, 100.01 - 100 above it):
\* noise says whether it comes out above.
DiffersBeyondTolerance(roundedSum, roundedAmount, noise) ==
    /\ roundedSum.kind = "number" /\ roundedAmount.kind = "number"
    /\ \/ roundedSum.limits # roundedAmount.limits
       \/ Abs(roundedSum.value - roundedAmount.value) > Cent
       \/ Abs(roundedSum.value - roundedAmount.value) = Cent /\ noise

HasDuplicates(list) ==
    \E i \in 1..Len(list), j \in 1..Len(list) :
        i # j /\ list[i].user_id = list[j].user_id

\* the description rule
DescriptionErrors(description) ==
    IF description.length = 0 \/ description.trimmed = 0
    THEN <<Error("description", 0, "Description is required")>>
    ELSE IF description.length > MaxDescription
    THEN <<Error("description", 0, "Description must be less than 200 characters")>>
    ELSE <<>>

\* the amount rule
AmountErrors(amount) ==
    IF ~IsValidNumber(amount)
    THEN <<Error("amount", 0, "Amount must be a valid number")>>
    ELSE IF NotPositive(amount)
    THEN <<Error("amount", 0, "Amount must be greater than 0")>>
    ELSE IF ExceedsLimit(amount)
    THEN <<Error("amount", 0, "Amount exceeds maximum limit")>>
    ELSE <<>>

\* the date rule
DateErrors(date) ==
    IF date = "absent" THEN <<>>
    ELSE IF date = "invalid"
    THEN <<Error("date", 0, "Invalid date format")>>
    ELSE IF date = "future"
    THEN <<Error("date", 0, "Date cannot be in the future")>>
    ELSE <<>>

\* the paid_by rule
PaidByErrors(paidBy) ==
    IF IsBlank(paidBy) THEN <<Error("paid_by", 0, "Payer is required")>> ELSE <<>>

\* expense.splits.forEach body of validateExpense for the split at index
ExpenseSplitErrors(split, index) ==
    (IF IsBlank(split.user_id)
     THEN <<Error("splits.user_id", index, "User ID is required")>>
     ELSE <<>>)
    \o (IF ~IsValidNumber(split.amount)
        THEN <<Error("splits.amount", index, "Amount must be a valid number")>>
        ELSE IF NotPositive(split.amount)
        THEN <<Error("splits.amount", index, "Amount must be greater than 0")>>
        ELSE <<>>)

RECURSIVE ForEachExpenseSplit(_, _)
ForEachExpenseSplit(list, n) ==
    IF n = 0 THEN <<>>
    ELSE ForEachExpenseSplit(list, n - 1) \o ExpenseSplitErrors(list[n], n)

SumError == Error("splits", 0, "Splits total must equal expense amount")

DuplicateError == Error("splits", 0, "Each person can only appear once in splits")

\* the splits rule of validateExpense, when nothing in it raises
SplitsErrors(list, amount, up, noise) ==
    IF Len(list) = 0
    THEN <<Error("splits", 0, "At least one split is required")>>
    ELSE ForEachExpenseSplit(list, Len(list))
         \o (IF DiffersBeyondTolerance(ParseFixed(SumOfSplits(list), up[1]),
                                       ParseFixed(amount, up[2]), noise)
             THEN <<SumError>> ELSE <<>>)
         \o (IF HasDuplicates(list) THEN <<DuplicateError>> ELSE <<>>)

\* splitSum.toFixed(2) or expense.amount.toFixed(2) raises a TypeError
SplitsRaise(list, amount) ==
    Len(list) > 0 /\ (ToFixedThrows(SumOfSplits(list)) \/ ToFixedThrows(amount))

validateExpense(expense, up, noise) ==
    IF SplitsRaise(expense.splits, expense.amount) THEN Threw
    ELSE Returned(DescriptionErrors(expense.description)
                  \o AmountErrors(expense.amount)
                  \o DateErrors(expense.date)
                  \o PaidByErrors(expense.paid_by)
                  \o SplitsErrors(expense.splits, expense.amount, up, noise))

\* variant: an amount above the total is let through
SplitErrorsNoExceed(split, index, total) ==
    (IF IsBlank(split.user_id)
     THEN <<Error("splits.user_id", index, "User ID is required")>>
     ELSE <<>>)
    \o (IF ~IsValidNumber(split.amount)
        THEN <<Error("splits.amount", index, "Amount must be a number")>>
        ELSE IF NotPositive(split.amount)
        THEN <<Error("splits.amount", index, "Amount must be greater than 0")>>
        ELSE <<>>)

\* splits.forEach body of validateSplits for the split at index
SplitErrors(split, index, total) ==
    (IF IsBlank(split.user_id)
     THEN <<Error("splits.user_id", index, "User ID is required")>>
     ELSE <<>>)
    \o (IF ~IsValidNumber(split.amount)
        THEN <<Error("splits.amount", index, "Amount must be a number")>>
        ELSE IF NotPositive(split.amount)
        THEN <<Error("splits.amount", index, "Amount must be greater than 0")>>
        ELSE IF GreaterThan(split.amount, total)
        THEN <<Error("splits.amount", index, "Amount cannot exceed total")>>
        ELSE <<>>)

RECURSIVE ForEachSplit(_, _, _)
ForEachSplit(list, n, total) ==
    IF n = 0 THEN <<>>
    ELSE ForEachSplit(list, n - 1, total)
         \o SplitErrors(list[n], n, total)

validateSplits(list, total, up, noise) ==
    IF Len(list) = 0
    THEN Returned(<<Error("splits", 0, "At least one split is required")>>)
    ELSE IF ~IsValidNumber(total) \/ NotPositive(total)
    THEN Returned(<<Error("totalAmount", 0, "Total amount must be a positive number")>>)
    ELSE IF ToFixedThrows(SumOfSplits(list)) THEN Threw
    ELSE Returned(
            ForEachSplit(list, Len(list), total)
            \o (IF DiffersBeyondTolerance(ParseFixed(SumOfSplits(list), up[1]),
                                          ParseFixed(total, up[2]), noise)
                THEN <<SumError>> ELSE <<>>)
            \o (IF HasDuplicates(list) THEN <<DuplicateError>> ELSE <<>>))

\* variant: a payer who is also the payee is let through
validateSettlementSelfPaid(settlement) ==
    Returned(
        (IF IsBlank(settlement.payer_id)
         THEN <<Error("payer_id", 0, "Payer is required")>> ELSE <<>>)
        \o (IF IsBlank(settlement.payee_id)
            THEN <<Error("payee_id", 0, "Payee is required")>> ELSE <<>>)
        \o AmountErrors(settlement.amount)
        \o DateErrors(settlement.date))

validateSettlement(settlement) ==
    Returned(
        (IF IsBlank(settlement.payer_id)
         THEN <<Error("payer_id", 0, "Payer is required")>> ELSE <<>>)
        \o (IF IsBlank(settlement.payee_id)
            THEN <<Error("payee_id", 0, "Payee is required")>> ELSE <<>>)
        \o (IF /\ settlement.payer_id # ""
               /\ settlement.payee_id # ""
               /\ settlement.payer_id = settlement.payee_id
            THEN <<Error("payee_id", 0, "Payer and payee cannot be the same person")>>
            ELSE <<>>)
        \o (IF ~IsValidNumber(settlement.amount)
            THEN <<Error("amount", 0, "Amount must be a valid number")>>
            ELSE IF NotPositive(settlement.amount)
            THEN <<Error("amount", 0, "Amount must be greater than 0")>>
            ELSE IF ExceedsLimit(settlement.amount)
            THEN <<Error("amount", 0, "Amount exceeds maximum limit")>>
            ELSE <<>>)
        \o DateErrors(settlement.date))

isValidSettlement(settlement) == Len(validateSettlement(settlement).errors) = 0

\* the message, or the empty list for null
getFirstSettlementError(settlement) ==
    LET errors == validateSettlement(settlement).errors
    IN  IF Len(errors) > 0 THEN <<errors[1].message>> ELSE <<>>

(***************************************************************************)
(* Specification of the validators: one call on any input of the sets      *)
(* below.                                                                  *)
(***************************************************************************)
Descriptions ==
    {[length |-> 0, trimmed |-> 0], [length |-> 1, trimmed |-> 0],
     [length |-> MaxDescription, trimmed |-> MaxDescription],
     [length |-> MaxDescription + 1, trimmed |-> MaxDescription + 1]}

\* amounts: not numbers, zero and below, cents, exactly 10,000,000 and
\* just above it
AmountValues ==
    {Undefined, NaN, AString, Number(0, -Cent), Number(0, 0), Number(0, Cent),
     Number(0, 2 * Cent), Number(1, 0), Number(1, 1)}

Dates == {"absent", "invalid", "today", "future"}

UserIdInputs == {"", " ", "u1", "u2"}

SplitInputs ==
    [user_id : {"", "u1", "u2"},
     amount : {Undefined, AString, Number(0, 0), Number(0, Cent),
               Number(0, Cent + 1)}]

SplitLists(n) == UNION {[1..k -> SplitInputs] : k \in 0..n}

\* every combination of the fields with at most one split, and every list
\* of splits with the other fields in order
ExpenseInputs ==
    [description : Descriptions, amount : AmountValues, date : Dates,
     paid_by : {"", " ", "u1"}, splits : SplitLists(1)]
    \cup [description : {[length |-> 4, trimmed |-> 4]}, amount : AmountValues,
          date : {"absent"}, paid_by : {"u1"}, splits : SplitLists(MaxSplits)]

SettlementInputs ==
    [payer_id : UserIdInputs, payee_id : UserIdInputs, amount : AmountValues,
     date : Dates]

InitValid ==
    /\ validation = [op |-> "none"]
    /\ IdleLedger /\ IdleSimplify /\ IdleDist /\ IdleStore /\ IdleFlow
    /\ IdleRetry /\ IdleEdit /\ IdleSummary

ValidateExpense ==
    /\ validation.op = "none"
    /\ \E expense \in ExpenseInputs, up \in [1..2 -> BOOLEAN], noise \in BOOLEAN :
          validation' = [op |-> "validateExpense", input |-> expense,
                         up |-> up, noise |-> noise,
                         result |-> validateExpense(expense, up, noise)]
    /\ UNCHANGED <<ledgerVars, simplifyVars, distVars, storeVars, flowVars,
                   retryVars, editVars, summaryVars>>

ValidateSplits ==
    /\ validation.op = "none"
    /\ \E list \in SplitLists(MaxSplits), total \in AmountValues,
          up \in [1..2 -> BOOLEAN], noise \in BOOLEAN :
          validation' = [op |-> "validateSplits",
                         input |-> [splits |-> list, amount |-> total],
                         up |-> up, noise |-> noise,
                         result |-> validateSplits(list, total, up, noise)]
    /\ UNCHANGED <<ledgerVars, simplifyVars, distVars, storeVars, flowVars,
                   retryVars, editVars, summaryVars>>

ValidateSettlement ==
    /\ validation.op = "none"
    /\ \E settlement \in SettlementInputs :
          validation' = [op |-> "validateSettlement", input |-> settlement,
                         result |-> validateSettlement(settlement),
                         isValid |-> isValidSettlement(settlement),
                         firstError |-> getFirstSettlementError(settlement)]
    /\ UNCHANGED <<ledgerVars, simplifyVars, distVars, storeVars, flowVars,
                   retryVars, editVars, summaryVars>>

NextValid ==
    \/ ValidateExpense
    \/ ValidateSplits
    \/ ValidateSettlement

SpecValid == InitValid /\ [][NextValid]_vars

(***************************************************************************)
(* Properties of the validators.                                           *)
(***************************************************************************)
\* C14: validateExpense, validateSplits and validateSettlement return their
\* list of errors and never raise, whatever the input.
C14_NeverThrows == validation.op # "none" => ~validation.result.threw

DescriptionOk(description) ==
    description.trimmed > 0 /\ description.length <= MaxDescription

\* a number with 0 < amount <= 10,000,000
AmountOk(amount) ==
    /\ amount.kind = "number"
    /\ \/ amount.limits = 0 /\ amount.value > 0
       \/ amount.limits = 1 /\ amount.value = 0

DateOk(date) == date \in {"absent", "today"}

NonBlank(id) == id \notin {"", " "}

\* non-empty, every amount > 0, no user twice, the sum within 0.01 of amount
SplitsOk(list, amount) ==
    /\ Len(list) > 0
    /\ \A i \in 1..Len(list) :
          list[i].amount.kind = "number" /\ list[i].amount.value > 0
    /\ \A i \in 1..Len(list), j \in 1..Len(list) :
          i # j => list[i].user_id # list[j].user_id
    /\ amount.kind = "number"
    /\ SumOfSplits(list).limits = amount.limits
    /\ Abs(SumOfSplits(list).value - amount.value) <= Cent

\* the rule an error belongs to: description, amount, date, paid_by, splits
RuleOf(error) ==
    CASE error.field = "description" -> 1
      [] error.field = "amount" -> 2
      [] error.field = "date" -> 3
      [] error.field = "paid_by" -> 4
      [] OTHER -> 5

Reports(errors, rule) == \E i \in 1..Len(errors) : RuleOf(errors[i]) = rule

\* C15: validateExpense returns the empty list exactly when description,
\* amount, date, paid_by and splits all satisfy their rule, and otherwise
\* an error for every violated rule, in the order description, amount,
\* date, paid_by, splits.
C15_ExpenseRules ==
    validation.op = "validateExpense" =>
        LET expense == validation.input
            result == validation.result
        IN  /\ ~result.threw
            /\ Reports(result.errors, 1) <=> ~DescriptionOk(expense.description)
            /\ Reports(result.errors, 2) <=> ~AmountOk(expense.amount)
            /\ Reports(result.errors, 3) <=> ~DateOk(expense.date)
            /\ Reports(result.errors, 4) <=> ~NonBlank(expense.paid_by)
            /\ Reports(result.errors, 5) <=> ~SplitsOk(expense.splits, expense.amount)
            /\ \A i \in 1..Len(result.errors), j \in 1..Len(result.errors) :
                  i < j => RuleOf(result.errors[i]) <= RuleOf(result.errors[j])

SettlementOk(settlement) ==
    /\ NonBlank(settlement.payer_id)
    /\ NonBlank(settlement.payee_id)
    /\ settlement.payer_id # settlement.payee_id
    /\ AmountOk(settlement.amount)
    /\ DateOk(settlement.date)

\* C17: validateSettlement returns the empty list exactly when payer_id and
\* payee_id are non-blank and different, amount is a number with
\* 0 < amount <= 10,000,000 and date, if present, parses and is not in the
\* future; isValidSettlement is true and getFirstSettlementError is null
\* exactly then.
C17_SettlementRules ==
    validation.op = "validateSettlement" =>
        /\ ~validation.result.threw
        /\ validation.result.errors = <<>> <=> SettlementOk(validation.input)
        /\ validation.isValid <=> SettlementOk(validation.input)
        /\ validation.firstError = <<>> <=> SettlementOk(validation.input)

C17_Witness ==
    /\ validation.op = "validateSettlement"
    /\ validation.input.amount = Number(1, 0)
    /\ validation.input.date = "today"
    /\ validation.input.payer_id = "u1"
    /\ validation.input.payee_id = "u2"
    /\ validation.result.errors = <<>>
    /\ validation.isValid

\* where the errors are: the field and split index of each
Where(errors) == {<<errors[i].field, errors[i].index>> : i \in 1..Len(errors)}

\* where validateExpense reports a splits error for these splits and amount
ExpenseSplitsWhere(list, amount, up, noise) ==
    IF SplitsRaise(list, amount) THEN {}
    ELSE Where(SplitsErrors(list, amount, up, noise))

\* the splits whose amount exceeds the total
ExceedsWhere(list, total) ==
    {<<"splits.amount", i>> : i \in {k \in 1..Len(list) :
                                        GreaterThan(list[k].amount, total)}}

\* C16 as stated: for any splits and any total, validateSplits reports an
\* error exactly where validateExpense reports a splits error for the same
\* splits and amount, and additionally for each split whose amount exceeds
\* total.
C16_SameAsExpenseSplits ==
    validation.op = "validateSplits" =>
        LET list == validation.input.splits
            total == validation.input.amount
        IN  Where(validation.result.errors)
                = ExpenseSplitsWhere(list, total, validation.up, validation.noise)
                      \cup ExceedsWhere(list, total)

\* C16 amended: for any splits and any total that is a number greater than
\* 0, validateSplits raises exactly when validateExpense raises on the same
\* splits and amount, and otherwise reports an error exactly where
\* validateExpense reports a splits error and additionally for each split
\* whose amount exceeds total.
C16_SameAsExpenseSplitsPositiveTotal ==
    (/\ validation.op = "validateSplits"
     /\ IsValidNumber(validation.input.amount)
     /\ ~NotPositive(validation.input.amount)) =>
        LET list == validation.input.splits
            total == validation.input.amount
        IN  /\ validation.result.threw <=> SplitsRaise(list, total)
            /\ ~validation.result.threw =>
                  Where(validation.result.errors)
                      = ExpenseSplitsWhere(list, total, validation.up,
                                           validation.noise)
                            \cup ExceedsWhere(list, total)

\* two splits of one user, one of them above the total: validateSplits
\* reports the amount above the total, the sum and the duplicate
C16_Witness ==
    /\ validation.op = "validateSplits"
    /\ validation.input.amount = Number(0, Cent)
    /\ Len(validation.input.splits) = 2
    /\ Where(validation.result.errors)
          = {<<"splits.amount", 2>>, <<"splits", 0>>}
    /\ Len(validation.result.errors) = 3

(***************************************************************************)
(* The closed-group invariant over the balances of calculateBalances.      *)
(***************************************************************************)
Distance(a, b) == IF a >= b THEN a - b ELSE b - a

\* the sum tolerance of validateExpense, applied to payers and to splits
\* (validateExpense wants at least one split)
LedgerRule(e) ==
    /\ Len(e.splits) > 0
    /\ Distance(Credited(e), e.amount) <= Cent
    /\ Distance(SumAmounts(e.splits), e.amount) <= Cent

Participants(bal) == {bal[k].user_id : k \in 1..Len(bal)}

\* C18: when the payer amounts and the split amounts of every expense are
\* each within 0.01 of the expense amount, the balances returned by
\* calculateBalances sum to 0 within 0.01 times the number of participants.
C18_ClosedGroupWithinEpsilon ==
    (computed /\ \A i \in 1..Len(expenses) : LedgerRule(expenses[i]))
        => Distance(BalanceSum(balances), 0)
               <= Cent * Cardinality(Participants(balances))

(***************************************************************************)
(* The amounts of the recorded settlements.                                *)
(***************************************************************************)
\* C19: every row recordSettlement has stored holds a strictly positive
\* amount of whole cents, and a call that asked for an amount > 0 and
\* succeeded has stored that amount rounded to cents.
C19_StoredRoundedPositive ==
    /\ \A i \in 1..Len(store) :
          store[i].amount % Cent = 0 /\ store[i].amount > 0
    /\ (IsRecordCall(last) /\ last.threw = "" /\ last.input.amount > 0)
          => store[Len(store)].amount = roundToTwoDecimals(last.input.amount)

C19_Witness ==
    /\ last.op = "settlements.recordSettlement"
    /\ last.threw = ""
    /\ last.input.amount % Cent # 0
    /\ store[Len(store)].amount = Cent

(***************************************************************************)
(* settlementExists against the recorded settlements.                      *)
(***************************************************************************)
\* the store holds a completed record of the group from payer to payee,
\* with the amount rounded to cents when an amount is given
HoldsCompleted(rows, input) ==
    \E i \in 1..Len(rows) :
       /\ rows[i].group_id = input.group_id
       /\ rows[i].payer_id = input.payer_id
       /\ rows[i].payee_id = input.payee_id
       /\ rows[i].status = "completed"
       /\ input.amount # <<>>
             => rows[i].amount = roundToTwoDecimals(input.amount[1])

\* C20: settlementExists(g, p, q, a?) answers true exactly when the store
\* holds a completed record of group g from payer p to payee q whose
\* amount, when a is given, equals a rounded to cents.
C20_ExistsExactlyWhenRecorded ==
    last.op = "settlementExists"
        => (last.result <=> HoldsCompleted(store, last.input))

(***************************************************************************)
(* getSettlementStats over the recorded settlements.                       *)
(***************************************************************************)
\* variant: a payment received counts as a payment too
StatsStepCountingReceived(stats, settlement, userId) ==
    LET touches == settlement.payer_id = userId \/ settlement.payee_id = userId
        paid == IF settlement.payer_id = userId
                THEN [stats EXCEPT !.totalPaid = @ + settlement.amount]
                ELSE stats
        counted == IF touches THEN [paid EXCEPT !.paymentCount = @ + 1] ELSE paid
    IN  IF settlement.payee_id = userId
        THEN [counted EXCEPT !.totalReceived = @ + settlement.amount]
        ELSE counted

\* the body of the for loop of getSettlementStats for one settlement
StatsStep(stats, settlement, userId) ==
    LET paid == IF settlement.payer_id = userId
                THEN [stats EXCEPT !.totalPaid = @ + settlement.amount,
                                   !.paymentCount = @ + 1]
                ELSE stats
    IN  IF settlement.payee_id = userId
        THEN [paid EXCEPT !.totalReceived = @ + settlement.amount]
        ELSE paid

RECURSIVE StatsLoop(_, _, _)
StatsLoop(stats, list, userId) ==
    IF list = <<>> THEN stats
    ELSE StatsLoop(StatsStep(stats, Head(list), userId), Tail(list), userId)

\* getSettlementStats(groupId, userId)
getSettlementStats(rows, groupId, userId) ==
    LET data == SelectSeq(rows, LAMBDA r :
                    /\ r.group_id = groupId
                    /\ r.status = "completed"
                    /\ (r.payer_id = userId \/ r.payee_id = userId))
        stats == StatsLoop([totalPaid |-> 0, totalReceived |-> 0,
                            paymentCount |-> 0], data, userId)
    IN  [totalPaid |-> roundToTwoDecimals(stats.totalPaid),
         totalReceived |-> roundToTwoDecimals(stats.totalReceived),
         paymentCount |-> stats.paymentCount,
         settlementRecords |-> data]

\* the amounts asked to be recorded before the statistics are read
StatsAmounts == {Cent, 2 * Cent + 1}

\* the users whose statistics are read: the members and a user no
\* record touches
StatsUsers == Members \cup {"u3"}

RecordForStats ==
    /\ \E g \in Groups, p \in Members, q \in Members, a \in StatsAmounts :
           recordSettlement([group_id |-> g, payer_id |-> p,
                             payee_id |-> q, amount |-> a])
    /\ UNCHANGED <<ledgerVars, simplifyVars, distVars, flowVars, validVars,
                   retryVars, editVars, summaryVars>>

GetSettlementStats ==
    /\ \E g \in Groups, u \in StatsUsers :
          last' = [op |-> "getSettlementStats",
                   input |-> [group_id |-> g, user_id |-> u],
                   result |-> getSettlementStats(store, g, u)]
    /\ UNCHANGED <<store, insertCalls, ledgerVars, simplifyVars,
                   distVars, flowVars, validVars, retryVars, editVars, summaryVars>>

NextStats == RecordForStats \/ GetSettlementStats

SpecStats == InitStore /\ [][NextStats]_vars

\* the completed records of the group that satisfy the test
CompletedWhere(groupId, Test(_)) ==
    SelectSeq(store, LAMBDA r : /\ r.group_id = groupId
                                /\ r.status = "completed"
                                /\ Test(r))

\* C21: getSettlementStats(g, u) returns as totalPaid the sum of the amounts
\* of the completed records of g paid by u, as totalReceived the sum of
\* those paid to u, and as paymentCount the number of those paid by u.
C21_StatsOfRecorded ==
    last.op = "getSettlementStats" =>
        LET g == last.input.group_id
            u == last.input.user_id
            paidByU == CompletedWhere(g, LAMBDA r : r.payer_id = u)
            paidToU == CompletedWhere(g, LAMBDA r : r.payee_id = u)
        IN  /\ last.result.totalPaid = SumAmounts(paidByU)
            /\ last.result.totalReceived = SumAmounts(paidToU)
            /\ last.result.paymentCount = Len(paidByU)

C21_Witness ==
    /\ last.op = "getSettlementStats"
    /\ last.result.paymentCount = 1
    /\ last.result.totalPaid = 2 * Cent
    /\ Len(last.result.settlementRecords) < Len(store)

(***************************************************************************)
(* utils/errorHandler: parseSupabaseError and retryWithBackoff.            *)
(***************************************************************************)
MaxAttempts == 3

\* an error object: its code and the words its message includes
ErrorObject(code, words) == [kind |-> "object", code |-> code, words |-> words]

\* a rejection with null or undefined as its reason
NoReason == [kind |-> "null"]

\* reading error.message of null or undefined raises
TypeError == [kind |-> "TypeError"]

\* parseSupabaseError(error).code for an error object
parseSupabaseError(error) ==
    IF "fetch" \in error.words \/ "network" \in error.words
    THEN "NETWORK_ERROR"
    ELSE IF \/ error.code = "PGRST301"
            \/ "permission" \in error.words
            \/ "denied" \in error.words
    THEN "PERMISSION_DENIED"
    ELSE IF error.code = "PGRST116" \/ "not found" \in error.words
    THEN "NOT_FOUND"
    ELSE IF error.code \in {"23505", "23503", "23514"}
    THEN "VALIDATION_ERROR"
    ELSE "UNKNOWN_ERROR"

\* the reasons fn may reject with
FnErrors ==
    {ErrorObject("", {"network"}), ErrorObject("", {"permission"}),
     ErrorObject("PGRST301", {}), ErrorObject("PGRST301", {"fetch"}),
     ErrorObject("23514", {}), ErrorObject("23505", {"not found"}),
     ErrorObject("", {}), NoReason}

RECURSIVE Pow2(_)
Pow2(n) == IF n = 0 THEN 1 ELSE 2 * Pow2(n - 1)

InitRetry ==
    /\ retry = [pc |-> "none"]
    /\ IdleLedger /\ IdleSimplify /\ IdleDist /\ IdleStore /\ IdleFlow
    /\ IdleValid /\ IdleEdit /\ IdleSummary

\* retryWithBackoff(fn, maxAttempts, delay) is called
CallRetry ==
    /\ retry.pc = "none"
    /\ \E m \in 0..MaxAttempts, d \in {0, 1} :
          retry' = [pc |-> "loop", maxAttempts |-> m, delay |-> d,
                    attempt |-> 1, errors |-> <<>>, calls |-> 0,
                    waits |-> <<>>]
    /\ UNCHANGED <<ledgerVars, simplifyVars, distVars, storeVars, flowVars,
                   validVars, editVars, summaryVars>>

\* an iteration whose await fn() resolves
FnResolves ==
    /\ retry.pc = "loop"
    /\ retry.attempt <= retry.maxAttempts
    /\ retry' = [retry EXCEPT !.pc = "returned", !.calls = @ + 1]
    /\ UNCHANGED <<ledgerVars, simplifyVars, distVars, storeVars, flowVars,
                   validVars, editVars, summaryVars>>

\* the catch block of one iteration, for the reason fn rejected with
Catch(r, error) ==
    LET caught == [r EXCEPT !.calls = @ + 1, !.errors = Append(@, error)]
    IN  IF error = NoReason
        THEN [pc |-> "threw", thrown |-> TypeError] @@ caught
        ELSE IF parseSupabaseError(error)
                    \in {"VALIDATION_ERROR", "PERMISSION_DENIED"}
        THEN [pc |-> "threw", thrown |-> error] @@ caught
        ELSE [caught EXCEPT
                !.attempt = @ + 1,
                !.waits = IF r.attempt < r.maxAttempts
                          THEN Append(@, r.delay * Pow2(r.attempt - 1))
                          ELSE @]

\* an iteration whose await fn() rejects
FnRejects ==
    /\ retry.pc = "loop"
    /\ retry.attempt <= retry.maxAttempts
    /\ \E error \in FnErrors : retry' = Catch(retry, error)
    /\ UNCHANGED <<ledgerVars, simplifyVars, distVars, storeVars, flowVars,
                   validVars, editVars, summaryVars>>

\* the loop is left: throw lastError
ThrowLastError ==
    /\ retry.pc = "loop"
    /\ retry.attempt > retry.maxAttempts
    /\ retry' = [pc |-> "threw",
                 thrown |-> IF retry.errors = <<>> THEN [kind |-> "undefined"]
                            ELSE retry.errors[Len(retry.errors)]] @@ retry
    /\ UNCHANGED <<ledgerVars, simplifyVars, distVars, storeVars, flowVars,
                   validVars, editVars, summaryVars>>

NextRetry == CallRetry \/ FnResolves \/ FnRejects \/ ThrowLastError

SpecRetry == InitRetry /\ [][NextRetry]_vars

\* the attempt failed with a validation or permission error
NotRetried(error) ==
    /\ error # NoReason
    /\ parseSupabaseError(error) \in {"VALIDATION_ERROR", "PERMISSION_DENIED"}

\* C22: fn is called at most maxAttempts times; a result is returned by the
\* first attempt that succeeds; a validation or permission error is thrown
\* again at once, and after any other error the next attempt is made until
\* maxAttempts calls have failed, when the error of the last one is thrown.
C22_AtMostMaxAttempts ==
    retry.pc # "none" =>
        LET n == Len(retry.errors)
        IN  /\ retry.calls <= retry.maxAttempts
            /\ \A k \in 1..(n - 1) : ~NotRetried(retry.errors[k])
            /\ retry.pc = "loop" => retry.calls = n
            /\ retry.pc = "returned" => retry.calls = n + 1
            /\ retry.pc = "threw" =>
                  /\ retry.calls = n
                  /\ n > 0 => retry.thrown = retry.errors[n]
                  /\ \/ n > 0 /\ NotRetried(retry.errors[n])
                     \/ n = retry.maxAttempts

(***************************************************************************)
(* The order in which simplifyDebts takes the debtors and the creditors,   *)
(* over the balance maps of whole cents.                                   *)
(***************************************************************************)
CentBalances == {c * Cent : c \in -MaxBal..MaxBal}

InitGreedy ==
    /\ \E n \in 0..MaxUsers :
          \E f \in [1..n -> CentBalances] : balances = BalanceMap(f)
    /\ arg = <<>>
    /\ settlements = <<>>
    /\ calls = 0
    /\ IdleLedger /\ IdleDist /\ IdleStore /\ IdleFlow /\ IdleValid
    /\ IdleRetry /\ IdleEdit /\ IdleSummary

SpecGreedy == InitGreedy /\ [][NextSimplify]_vars

\* the entry of the user in the map
EntryOf(bal, userId) == CHOOSE i \in 1..Len(bal) : bal[i].user_id = userId

\* entry i comes before entry j: a larger absolute balance, or an equal
\* one inserted earlier
ComesBefore(bal, i, j) ==
    \/ Abs(bal[i].balance) > Abs(bal[j].balance)
    \/ Abs(bal[i].balance) = Abs(bal[j].balance) /\ i < j

\* the entry of the set that comes before all others of the set
FirstOf(bal, entries) ==
    CHOOSE i \in entries : \A j \in entries \ {i} : ComesBefore(bal, i, j)

DebtorEntries(bal) == {i \in 1..Len(bal) : IsDebtor(bal[i])}

CreditorEntries(bal) == {i \in 1..Len(bal) : IsCreditor(bal[i])}

\* C23: debtors and creditors are each taken by descending absolute
\* balance, ties in insertion order: the first transaction pairs the
\* largest debtor with the largest creditor, and no transaction of a
\* party follows one of a party sorted after it.
C23_SortedProcessing ==
    calls > 0 =>
        /\ (DebtorEntries(arg) # {} /\ CreditorEntries(arg) # {}) =>
              /\ settlements # <<>>
              /\ EntryOf(arg, settlements[1].payer_id)
                    = FirstOf(arg, DebtorEntries(arg))
              /\ EntryOf(arg, settlements[1].payee_id)
                    = FirstOf(arg, CreditorEntries(arg))
        /\ \A k, l \in 1..Len(settlements) : k < l =>
              /\ ~ComesBefore(arg, EntryOf(arg, settlements[l].payer_id),
                                   EntryOf(arg, settlements[k].payer_id))
              /\ ~ComesBefore(arg, EntryOf(arg, settlements[l].payee_id),
                                   EntryOf(arg, settlements[k].payee_id))

C23_Witness ==
    /\ calls > 0
    /\ Len(settlements) >= 3
    /\ \E i, j \in DebtorEntries(arg) :
          i < j /\ arg[i].balance = arg[j].balance
    /\ \E i, j \in CreditorEntries(arg) :
          i < j /\ arg[i].balance < arg[j].balance
    /\ settlements[1].payer_id # settlements[Len(settlements)].payer_id

(***************************************************************************)
(* The parties matched at each step of the loop of simplifyDebts.          *)
(***************************************************************************)
\* the entry holds the largest absolute balance left among the entries
\* of the list that are not settled
LargestRemaining(bal, entry, list) ==
    \A k \in 1..Len(list) :
        Abs(bal[list[k]].balance) >= Cent =>
            Abs(bal[entry].balance) >= Abs(bal[list[k]].balance)

\* every step of the loop from st on matches the largest remaining debtor
\* with the largest remaining creditor
RECURSIVE MatchesLargest(_, _, _)
MatchesLargest(st, creditors, debtors) ==
    IF st.creditorIdx <= Len(creditors) /\ st.debtorIdx <= Len(debtors)
    THEN /\ LargestRemaining(st.bal, creditors[st.creditorIdx], creditors)
         /\ LargestRemaining(st.bal, debtors[st.debtorIdx], debtors)
         /\ MatchesLargest(MatchStep(st, creditors, debtors),
                           creditors, debtors)
    ELSE TRUE

\* C24: at every matching step the debtor and the creditor matched hold
\* the largest remaining absolute balance among the parties not yet
\* settled at that step.
C24_MatchesLargestRemaining ==
    calls > 0 =>
        MatchesLargest([bal |-> arg, out |-> <<>>,
                        creditorIdx |-> 1, debtorIdx |-> 1],
                       Creditors(arg), Debtors(arg))

\* the entry comes, by the balances the call began with, before every
\* other entry of the list that is not settled
FirstUnsettled(bal, entry, list) ==
    \A k \in 1..Len(list) :
        (Abs(bal[list[k]].balance) >= Cent /\ list[k] # entry) =>
            ComesBefore(arg, entry, list[k])

RECURSIVE MatchesFirstUnsettled(_, _, _)
MatchesFirstUnsettled(st, creditors, debtors) ==
    IF st.creditorIdx <= Len(creditors) /\ st.debtorIdx <= Len(debtors)
    THEN /\ FirstUnsettled(st.bal, creditors[st.creditorIdx], creditors)
         /\ FirstUnsettled(st.bal, debtors[st.debtorIdx], debtors)
         /\ MatchesFirstUnsettled(MatchStep(st, creditors, debtors),
                                  creditors, debtors)
    ELSE TRUE

\* C24 amended: at every matching step the debtor and the creditor matched
\* are, among the parties not yet settled at that step, the ones that held
\* the largest absolute balance when simplifyDebts was called.
C24_MatchesLargestInitial ==
    calls > 0 =>
        MatchesFirstUnsettled([bal |-> arg, out |-> <<>>,
                               creditorIdx |-> 1, debtorIdx |-> 1],
                              Creditors(arg), Debtors(arg))

C24_Witness ==
    /\ calls > 0
    /\ Len(settlements) >= 3
    /\ BalanceSum(arg) = 0
    /\ UnsettledCentPrecise(arg)
    /\ ~MatchesLargest([bal |-> arg, out |-> <<>>,
                         creditorIdx |-> 1, debtorIdx |-> 1],
                        Creditors(arg), Debtors(arg))

(***************************************************************************)
(* Termination of the loop of simplifyDebts.                               *)
(***************************************************************************)
\* every step of the loop from st on brings the debtor or the creditor it
\* matches to within 0.01 of zero and moves the cursor of that party
RECURSIVE EveryStepAdvances(_, _, _)
EveryStepAdvances(st, creditors, debtors) ==
    IF st.creditorIdx <= Len(creditors) /\ st.debtorIdx <= Len(debtors)
    THEN LET next == MatchStep(st, creditors, debtors)
             c == creditors[st.creditorIdx]
             d == debtors[st.debtorIdx]
         IN  /\ \/ /\ Abs(next.bal[d].balance) < Cent
                   /\ next.debtorIdx = st.debtorIdx + 1
                \/ /\ Abs(next.bal[c].balance) < Cent
                   /\ next.creditorIdx = st.creditorIdx + 1
             /\ next.debtorIdx >= st.debtorIdx
             /\ next.creditorIdx >= st.creditorIdx
             /\ EveryStepAdvances(next, creditors, debtors)
    ELSE TRUE

\* the loop pushes one transaction per iteration
Iterations == Len(settlements)

\* C25 as stated: each iteration settles one of the two matched parties
\* and advances its cursor, and the loop runs at most
\* creditors + debtors - 1 iterations.
C25_Terminates ==
    calls > 0 =>
        /\ EveryStepAdvances([bal |-> arg, out |-> <<>>,
                               creditorIdx |-> 1, debtorIdx |-> 1],
                              Creditors(arg), Debtors(arg))
        /\ Iterations <= Len(Creditors(arg)) + Len(Debtors(arg)) - 1

\* C25 amended: the same, with no iteration at all when there is no
\* creditor or no debtor.
C25_TerminatesOrNoIteration ==
    calls > 0 =>
        /\ EveryStepAdvances([bal |-> arg, out |-> <<>>,
                               creditorIdx |-> 1, debtorIdx |-> 1],
                              Creditors(arg), Debtors(arg))
        /\ IF Creditors(arg) = <<>> \/ Debtors(arg) = <<>>
           THEN Iterations = 0
           ELSE Iterations <= Len(Creditors(arg)) + Len(Debtors(arg)) - 1

C25_Witness ==
    /\ calls > 0
    /\ Len(Creditors(arg)) = 2
    /\ Len(Debtors(arg)) = 2
    /\ Iterations = 3

(***************************************************************************)
(* The splits of distributeEvenly handed to validateSplits.                *)
(***************************************************************************)
\* the SplitInput[] of distributeEvenly as validateSplits reads it
AsSplitInputs(list) ==
    [i \in 1..Len(list) |->
        [user_id |-> list[i].user_id, amount |-> Number(0, list[i].amount)]]

\* C26: for a total > 0 of whole cents and at least one participant, every
\* amount of distributeEvenly is strictly positive and validateSplits
\* returns no error for the result and the total.
C26_DistributedPassesValidation ==
    (distributed /\ Len(userIds) >= 1
       /\ totalAmount > 0 /\ totalAmount % Cent = 0) =>
        /\ \A i \in 1..Len(splits) : splits[i].amount > 0
        /\ \A up \in [1..2 -> BOOLEAN], noise \in BOOLEAN :
              validateSplits(AsSplitInputs(splits), Number(0, totalAmount),
                             up, noise) = Returned(<<>>)

(***************************************************************************)
(* The equal splits stored by createExpense and by the equal-split path    *)
(* of the Add Expense screen (createExpenseWithMultiplePayers).            *)
(***************************************************************************)
\* createExpense: perUser = parseFloat((amount / n).toFixed(2)) for everyone
createExpense(participantIds, amount, up) ==
    LET perUser == toFixed2(amount, Len(participantIds), up)
    IN  [i \in 1..Len(participantIds) |->
            [user_id |-> participantIds[i], amount |-> perUser]]

\* validateAndCreate hands perUser = amt / n for everyone to
\* createExpenseWithMultiplePayers, which stores
\* parseFloat(split.amount.toFixed(2)) for each split
createExpenseWithMultiplePayers(participantIds, amount, up) ==
    [i \in 1..Len(participantIds) |->
        [user_id |-> participantIds[i],
         amount |-> toFixed2(amount, Len(participantIds), up)]]

\* createExpense is called for the amount and the participants
CreateExpense ==
    /\ ~distributed
    /\ Len(userIds) >= 1
    /\ \E up \in BOOLEAN : splits' = createExpense(userIds, totalAmount, up)
    /\ distributed' = TRUE
    /\ UNCHANGED <<userIds, totalAmount, ledgerVars, simplifyVars,
                   storeVars, flowVars, validVars, retryVars, editVars, summaryVars>>

\* the Add Expense screen creates the expense with equal splits
CreateExpenseWithMultiplePayers ==
    /\ ~distributed
    /\ Len(userIds) >= 1
    /\ totalAmount > 0
    /\ \E up \in BOOLEAN :
          splits' = createExpenseWithMultiplePayers(userIds, totalAmount, up)
    /\ distributed' = TRUE
    /\ UNCHANGED <<userIds, totalAmount, ledgerVars, simplifyVars,
                   storeVars, flowVars, validVars, retryVars, editVars, summaryVars>>

NextCreate == CreateExpense \/ CreateExpenseWithMultiplePayers

SpecCreate == InitDist /\ [][NextCreate]_vars

\* C27: the equal splits stored for a created expense sum to the expense
\* amount within 0.01 (here for the amounts > 0 of whole cents).
C27_CreatedSplitsSumToAmount ==
    (distributed /\ Len(userIds) >= 1
       /\ totalAmount > 0 /\ totalAmount % Cent = 0) =>
        Abs(SumAmounts(splits) - totalAmount) <= Cent

(***************************************************************************)
(* updateExpense on a stored expense, one statement at a time, while       *)
(* calculateGroupDebts may read the group.                                 *)
(***************************************************************************)
Entry(userId, amount) == [user_id |-> userId, amount |-> amount]

\* the expense as it was created: by createExpense and the like (no row in
\* expense_payers), or by createExpenseWithMultiplePayers
StoredExpenses ==
    {[amount |-> 2 * Cent, paid_by |-> "u1", payers |-> p,
      splits |-> <<Entry("u1", Cent), Entry("u2", Cent)>>] :
        p \in {<<>>, <<Entry("u1", 2 * Cent)>>,
                <<Entry("u1", Cent), Entry("u2", Cent)>>}}

\* UpdateExpenseData: the amount, when given, and the splits
UpdateInputs ==
    {[amount |-> <<4 * Cent>>,
      splits |-> <<Entry("u1", 2 * Cent), Entry("u2", 2 * Cent)>>],
     [amount |-> <<4 * Cent>>,
      splits |-> <<Entry("u1", 3 * Cent + 1), Entry("u2", Cent - 1)>>],
     [amount |-> <<3 * Cent>>,
      splits |-> <<Entry("u2", 3 * Cent)>>],
     [amount |-> <<>>,
      splits |-> <<Entry("u1", 2 * Cent)>>],
     [amount |-> <<3 * Cent>>, splits |-> <<>>]}

InitEdit ==
    /\ \E e \in StoredExpenses : db = <<e>>
    /\ editor = [pc |-> "idle"]
    /\ observed = [op |-> "none"]
    /\ IdleLedger /\ IdleSimplify /\ IdleDist /\ IdleStore /\ IdleFlow
    /\ IdleValid /\ IdleRetry /\ IdleSummary

\* a statement of updateExpense returns an error: the function throws and
\* what the earlier statements wrote stays
Throws(message) == editor' = [editor EXCEPT !.pc = "failed"] @@ [threw |-> message]

\* updateExpense(expenseId, data): select the current expense
FetchCurrent ==
    /\ editor.pc = "idle"
    /\ \E data \in UpdateInputs :
          \/ editor' = [pc |-> "fetched", data |-> data]
          \/ editor' = [pc |-> "failed", data |-> data,
                        threw |-> "Failed to fetch expense"]
    /\ UNCHANGED <<db, observed, ledgerVars, simplifyVars, distVars,
                   storeVars, flowVars, validVars, retryVars, summaryVars>>

\* update expenses set ... where id = expenseId, when a field is given
UpdateRow ==
    /\ editor.pc = "fetched"
    /\ IF editor.data.amount = <<>>
       THEN editor' = [editor EXCEPT !.pc = "updated"] /\ db' = db
       ELSE \/ /\ db' = [db EXCEPT ![1].amount = editor.data.amount[1]]
               /\ editor' = [editor EXCEPT !.pc = "updated"]
            \/ Throws("Failed to update expense") /\ db' = db
    /\ UNCHANGED <<observed, ledgerVars, simplifyVars, distVars,
                   storeVars, flowVars, validVars, retryVars, summaryVars>>

\* delete from splits where expense_id = expenseId, when splits are given
DeleteSplits ==
    /\ editor.pc = "updated"
    /\ Len(editor.data.splits) > 0
    /\ \/ /\ db' = [db EXCEPT ![1].splits = <<>>]
          /\ editor' = [editor EXCEPT !.pc = "deleted"]
       \/ Throws("Failed to delete old splits") /\ db' = db
    /\ UNCHANGED <<observed, ledgerVars, simplifyVars, distVars,
                   storeVars, flowVars, validVars, retryVars, summaryVars>>

\* the expense once the new splits are inserted: expense_payers is not
\* touched
Inserted(expense, newSplits) == [expense EXCEPT !.splits = newSplits]

\* insert into splits the new rows, each amount parseFloat(toFixed(2))
InsertSplits ==
    /\ editor.pc = "deleted"
    /\ \/ /\ \E up \in BOOLEAN :
                db' = [db EXCEPT ![1] = Inserted(@,
                         [i \in 1..Len(editor.data.splits) |->
                            Entry(editor.data.splits[i].user_id,
                                  toFixed2(editor.data.splits[i].amount, 1, up))])]
          /\ editor' = [editor EXCEPT !.pc = "inserted"]
       \/ Throws("Failed to insert new splits") /\ db' = db
    /\ UNCHANGED <<observed, ledgerVars, simplifyVars, distVars,
                   storeVars, flowVars, validVars, retryVars, summaryVars>>

\* select the updated expense with its splits and return it
FetchUpdated ==
    /\ \/ editor.pc = "inserted"
       \/ editor.pc = "updated" /\ Len(editor.data.splits) = 0
    /\ \/ editor' = [editor EXCEPT !.pc = "done"] @@ [returned |-> db[1]]
       \/ Throws("Failed to fetch updated expense")
    /\ UNCHANGED <<db, observed, ledgerVars, simplifyVars, distVars,
                   storeVars, flowVars, validVars, retryVars, summaryVars>>

\* calculateGroupDebts(groupId) of some client: one select of the expenses
\* with their splits and payers, then calculateBalances and simplifyDebts
ReadGroupDebts ==
    /\ observed' = [op |-> "calculateGroupDebts", expenses |-> db,
                    during |-> editor.pc,
                    balances |-> calculateBalances(db),
                    result |-> calculateGroupDebts(db)]
    /\ UNCHANGED <<db, editor, ledgerVars, simplifyVars, distVars,
                   storeVars, flowVars, validVars, retryVars, summaryVars>>

NextEdit ==
    \/ FetchCurrent
    \/ UpdateRow
    \/ DeleteSplits
    \/ InsertSplits
    \/ FetchUpdated
    \/ ReadGroupDebts

SpecEdit == InitEdit /\ [][NextEdit]_vars

\* the update gives a new amount and new splits that sum to it
SplitsSumToNewAmount(data) ==
    data.amount # <<>> /\ SumAmounts(data.splits) = data.amount[1]

\* C28: after updateExpense has completed with a new amount and new splits
\* that sum to it, the expense credits its payers what it charges its
\* splits, and the balances of the group sum to zero.
C28_UpdatedStaysBalanced ==
    (editor.pc = "done" /\ SplitsSumToNewAmount(editor.data)) =>
        /\ PayersMatchSplits(db[1])
        /\ BalanceSum(calculateBalances(db)) = 0

\* C29: calculateGroupDebts never reads the expense with splits that do
\* not sum to its amount, whatever an updateExpense with a new amount and
\* new splits that sum to it is doing or has done.
C29_ReadersSeeNoIntermediate ==
    (/\ observed.op = "calculateGroupDebts"
     /\ editor.pc # "idle" => SplitsSumToNewAmount(editor.data)) =>
        \A i \in 1..Len(observed.expenses) :
            SumAmounts(observed.expenses[i].splits)
                = observed.expenses[i].amount

(***************************************************************************)
(* The balance summary (getGroupBalances) next to the balances that        *)
(* calculateGroupDebts works from (calculateBalances), as loadData of the  *)
(* group screen obtains them.                                              *)
(***************************************************************************)
\* the body of expenses.forEach of getGroupBalances for one expense
SummaryStep(bal, expense) ==
    SubtractSplits(addBalance(bal, expense.paid_by, expense.amount),
                   expense.splits)

RECURSIVE SummaryLoop(_, _)
SummaryLoop(bal, exps) ==
    IF exps = <<>> THEN bal
    ELSE SummaryLoop(SummaryStep(bal, Head(exps)), Tail(exps))

\* getGroupBalances(groupId) over the expenses of the group
getGroupBalances(exps, up) ==
    LET balance == SummaryLoop(<<>>, exps)
    IN  [k \in 1..Len(balance) |->
            [userId |-> balance[k].user_id,
             balance |-> toFixed2(balance[k].balance, 1, up)]]

\* loadData: getGroupBalances, then calculateGroupDebts
LoadBalances ==
    /\ ~computed
    /\ \E up \in BOOLEAN : summary' = getGroupBalances(expenses, up)
    /\ balances' = calculateBalances(expenses)
    /\ computed' = TRUE
    /\ UNCHANGED <<expenses, arg, settlements, calls, distVars, storeVars,
                   flowVars, validVars, retryVars, editVars>>

NextSummary == LoadBalances

SpecSummary == InitLedger /\ [][NextSummary]_vars

\* the expense is as the program stores it: no payer rows, or payer rows
\* that sum to the amount with the first payer as paid_by
StoredAsCreated(e) ==
    \/ Len(e.payers) = 0
    \/ SumAmounts(e.payers) = e.amount /\ e.paid_by = e.payers[1].user_id

\* the balance the list reports for the user, 0 when it has no entry
ReportedBalance(list, userId) ==
    IF \E k \in 1..Len(list) : list[k].userId = userId
    THEN (CHOOSE entry \in {list[k] : k \in 1..Len(list)} :
              entry.userId = userId).balance
    ELSE 0

NetBalance(bal, userId) ==
    IF IndexOf(bal, userId) = 0 THEN 0 ELSE bal[IndexOf(bal, userId)].balance

\* C30: for stored expenses the balance getGroupBalances reports for a
\* user is, to the cent, the net balance calculateBalances computes for
\* that user from the same expenses.
C30_SummaryAgreesWithDebts ==
    (computed /\ \A i \in 1..Len(expenses) : StoredAsCreated(expenses[i])) =>
        \A i \in 1..Len(LedgerUsers) :
            ReportedBalance(summary, LedgerUsers[i])
                = roundToTwoDecimals(NetBalance(balances, LedgerUsers[i]))
====
